---- MODULE Spec2Model ----
(***************************************************************************)
(* Model of ssh_edr.py: the SSHEdr detection engine.  One log line is      *)
(* handed to parse_line at a time (SSHEdr.run); parse_line classifies it   *)
(* with four regular expressions and calls record_failed,                  *)
(* record_invalid_user or record_success, which keep per-IP sliding        *)
(* windows of arrival times, per-user known-IP sets and login histories,   *)
(* append alerts and issue block requests.                                 *)
(*                                                                         *)
(* Time is the reading of datetime.utcnow() in whole seconds.  It is the   *)
(* wall clock: nothing in the code makes it monotonic, so every handler    *)
(* draws its reading from the whole range Times.                           *)
(***************************************************************************)
EXTENDS Integers, Sequences, FiniteSets, TLC

----------------------------------------------------------------------------
(* Bounds of the model *)

\* Lines processed in one run of the main specification.
MaxEvents == 3
\* Lines processed in one run of the classification specification.
MaxParseLines == 2
\* Logins processed in one run of the login-history specification.
MaxLogins == 52
\* Largest clock reading.
MaxTime == 3
\* Lines processed in one run of the input/output specification.
MaxIOEvents == 3

IPs == {"ip1", "ip2"}
Users == {"u1", "u2"}
Times == 0..MaxTime

\* ssh_edr.py:43  deque(maxlen=50)
HistoryMaxLen == 50

\* Engine configurations (SSHEdr.__init__ arguments) the runs start from.
Configs ==
  { [failed_threshold |-> 2, window_seconds |-> 2, invalid_threshold |-> 2,
     dry_run |-> TRUE, execute_block |-> FALSE],
    [failed_threshold |-> 2, window_seconds |-> 1, invalid_threshold |-> 1,
     dry_run |-> FALSE, execute_block |-> TRUE],
    [failed_threshold |-> 1, window_seconds |-> 2, invalid_threshold |-> 2,
     dry_run |-> FALSE, execute_block |-> FALSE],
    [failed_threshold |-> 4, window_seconds |-> 1, invalid_threshold |-> 1,
     dry_run |-> TRUE, execute_block |-> TRUE],
    \* --window is any int: with a negative window every entry is pruned at once
    [failed_threshold |-> 1, window_seconds |-> -1, invalid_threshold |-> 0,
     dry_run |-> FALSE, execute_block |-> FALSE] }

----------------------------------------------------------------------------
(* State *)

VARIABLES
  \* SSHEdr fields (ssh_edr.py:38-47)
  failed_threshold, window, invalid_threshold, dry_run, execute_block,
  failed,             \* defaultdict(deque): ip -> arrival times, oldest first
  invalid_user,       \* defaultdict(deque): ip -> arrival times, oldest first
  successful_logins,  \* defaultdict(deque(maxlen=50)): user -> <<ip, time>>
  known_user_ips,     \* defaultdict(set): user -> set of ips
  alerts,             \* list of alert records, in emission order
  \* Effects outside the object
  blocks,             \* _block_ip invocations so far: [ip, executed]
  stdout,             \* what was printed to standard output, in order
  stderr,             \* what was printed to standard error, in order
  alert_file,         \* what was written to ALERT_FILE, in order
  executions,         \* subprocess.check_call invocations: [ip, ok]
  pc,                 \* __main__: "running" in edr.run, then "interrupted" or "eof"
  \* The ingestion loop's latest iteration
  line,               \* the line last handed to parse_line
  calls,              \* the rule invocations parse_line made for it
  lineAlerts,         \* the alerts appended while it was handled
  lineBlocks,         \* the block requests issued while it was handled
  nEvents,            \* lines processed so far
  \* History, kept for stating the properties
  failedHist,         \* ip -> arrival times of every record_failed(ip)
  invalidHist,        \* ip -> arrival times of every record_invalid_user(ip, _)
  successHist,        \* user -> <<ip, time>> of every record_success(user, _)
  failureKinds        \* ip -> pattern of every failure line read for the ip

cfgVars == <<failed_threshold, window, invalid_threshold, dry_run, execute_block>>
edrVars == <<failed, invalid_user, successful_logins, known_user_ips, alerts>>
histVars == <<failedHist, invalidHist, successHist, failureKinds>>
lineVars == <<line, calls, lineAlerts, lineBlocks>>
ioVars == <<stdout, stderr, alert_file, executions>>
vars == <<cfgVars, edrVars, blocks, ioVars, pc, lineVars, nEvents, histVars>>

----------------------------------------------------------------------------
(* Log lines *)

(* A line is characterised by the result of each pattern's search on it    *)
(* (ssh_edr.py:28-31): the empty set when the pattern does not match, else *)
(* the set holding the captured groups parse_line reads.  Group 2 of       *)
(* FAILED_RE (the user) is captured but never read.                        *)
NoMatch == [FAILED_RE |-> {}, INVALID_USER_RE |-> {}, ACCEPTED_RE |-> {}, PAM_FAILED_RE |-> {}]

FailedLine(ip) == [NoMatch EXCEPT !.FAILED_RE = {[ip |-> ip]}]

InvalidUserLine(user, ip) == [NoMatch EXCEPT !.INVALID_USER_RE = {[user |-> user, ip |-> ip]}]

AcceptedLine(user, ip) == [NoMatch EXCEPT !.ACCEPTED_RE = {[user |-> user, ip |-> ip]}]

PamFailedLine(ip) == [NoMatch EXCEPT !.PAM_FAILED_RE = {[ip |-> ip]}]

\* Lines that match at most one pattern.
SingleLines ==
  {NoMatch} \cup {FailedLine(ip) : ip \in IPs} \cup {PamFailedLine(ip) : ip \in IPs}
    \cup {InvalidUserLine(u, ip) : u \in Users, ip \in IPs}
    \cup {AcceptedLine(u, ip) : u \in Users, ip \in IPs}

AtMostOne(S) == {{}} \cup {{x} : x \in S}

\* Every line: each pattern matches or not, with its own captures.
AllLines ==
  [FAILED_RE : AtMostOne([ip : IPs]), INVALID_USER_RE : AtMostOne([user : Users, ip : IPs]),
   ACCEPTED_RE : AtMostOne([user : Users, ip : IPs]), PAM_FAILED_RE : AtMostOne([ip : IPs])]

\* m = RE.search(line), for a search that matched.
Match(S) == CHOOSE m \in S : TRUE

----------------------------------------------------------------------------
(* The engine.  Each method is an operator from the object's state before  *)
(* the call to its state after it.  The state s holds the SSHEdr fields,   *)
(* the block log, the trace of rule invocations made for the current line  *)
(* (calls) and the clock reading taken while the line is handled (utcnow), *)
(* the output streams and the alert file, and what the environment does    *)
(* while the line is handled (env): which of the line's attempts to append *)
(* to ALERT_FILE raise, and whether the block command runs successfully.   *)

\* The environments of one line: a line makes at most two attempts to write.
Envs == [write_fails : SUBSET {1, 2}, exec_ok : BOOLEAN, interrupt_after : {0}]

\* The environment in which every write and every command succeeds.
AllOk == [write_fails |-> {}, exec_ok |-> TRUE, interrupt_after |-> 0]

\* The same outcomes with a KeyboardInterrupt raised during the line, after
\* the n-th effect on the log or the surroundings that handling it makes.  A
\* line makes at most six: two alerts, each printed, appended and written.
InterruptPoints == 1..6

InterruptedEnvs == [write_fails : SUBSET {1, 2}, exec_ok : BOOLEAN, interrupt_after : InterruptPoints]

\* json.dumps(alert) + "\\n" (ssh_edr.py:99): the serialised alert, followed
\* by the two characters backslash and n.
Written(alert) == <<[kind |-> "json", alert |-> alert], [kind |-> "chars", chars |-> "\\n"]>>

Max(a, b) == IF a >= b THEN a ELSE b

\* defaultdict.__getitem__: a missing key is inserted with the default value.
Vivify(map, key, default) == IF key \in DOMAIN map THEN map ELSE map @@ (key :> default)

\* deque.append on a deque made without maxlen: nothing is ever dropped.
BoundedAppend_unbounded(dq, x, maxlen) == Append(dq, x)

\* deque.append on a deque with maxlen: a full deque drops its leftmost item.
BoundedAppend(dq, x, maxlen) == IF Len(dq) >= maxlen THEN Append(Tail(dq), x) ELSE Append(dq, x)

\* _prune with the comparison dq[0] <= cutoff: an entry at the cutoff is dropped.
RECURSIVE _prune_inclusive(_, _)
_prune_inclusive(dq, cutoff) ==
  IF dq # <<>> /\ Head(dq) <= cutoff THEN _prune_inclusive(Tail(dq), cutoff) ELSE dq

RECURSIVE _prune(_, _)
_prune(dq, cutoff) == IF dq # <<>> /\ Head(dq) < cutoff THEN _prune(Tail(dq), cutoff) ELSE dq

\* One effect of handling a line: `after` is the state once it is made.
\* Nothing more is done once KeyboardInterrupt is raised; it is raised after
\* the effect the environment has chosen, and no except clause of the class
\* catches it.
Step(s, after) ==
  IF s.raised THEN s
  ELSE [after EXCEPT !.steps = s.steps + 1,
                     !.raised = (s.steps + 1 = s.env.interrupt_after)]

\* _alert putting the new alert at the head of self.alerts.
_alert_prepending(s, kind, info) ==
  LET alert == [ts |-> s.utcnow, kind |-> kind, info |-> info]
      s1 == [s EXCEPT !.stdout = Append(@, [tag |-> "ALERT", alert |-> alert]),
                      !.alerts = <<alert>> \o @,
                      !.attempts = @ + 1]
  IN  IF s1.attempts \notin s.env.write_fails
        THEN [s1 EXCEPT !.alert_file = @ \o Written(alert)]
        ELSE [s1 EXCEPT !.stderr = Append(@, [tag |-> "Could not write alert to file"])]

\* _alert in which a failing write loses the alert: nothing is recorded in
\* memory or printed for it.
_alert_lossy(s, kind, info) ==
  LET alert == [ts |-> s.utcnow, kind |-> kind, info |-> info]
      s1 == [s EXCEPT !.stdout = Append(@, [tag |-> "ALERT", alert |-> alert]),
                      !.alerts = Append(@, alert),
                      !.attempts = @ + 1]
  IN  IF s1.attempts \notin s.env.write_fails
        THEN [s1 EXCEPT !.alert_file = @ \o Written(alert)]
        ELSE [s EXCEPT !.attempts = @ + 1,
                       !.stderr = Append(@, [tag |-> "Could not write alert to file"])]

\* The alert, stamped with the clock reading of the line being handled, is
\* printed and appended to self.alerts; then it is appended to ALERT_FILE.
\* An open or write that raises leaves the file as it was and prints to
\* standard error.
_alert(s, kind, info) ==
  LET alert == [ts |-> s.utcnow, kind |-> kind, info |-> info]
      s1 == Step(s, [s EXCEPT !.stdout = Append(@, [tag |-> "ALERT", alert |-> alert])])
      s2 == Step(s1, [s1 EXCEPT !.alerts = Append(@, alert), !.attempts = @ + 1])
  IN  Step(s2, IF s2.attempts \notin s.env.write_fails
                 THEN [s2 EXCEPT !.alert_file = @ \o Written(alert)]
                 ELSE [s2 EXCEPT !.stderr = Append(@, [tag |-> "Could not write alert to file"])])

\* _block_ip running the command whatever execute_block is.
_block_ip_eager(s, ip) ==
  LET s1 == [s EXCEPT !.blocks = Append(@, [ip |-> ip, executed |-> execute_block]),
                      !.stdout = Append(@, [tag |-> "ACTION", ip |-> ip])]
      s2 == [s1 EXCEPT !.executions = Append(@, [ip |-> ip, ok |-> s.env.exec_ok])]
  IN  IF s.env.exec_ok
        THEN s2
        ELSE [s2 EXCEPT !.stderr = Append(@, [tag |-> "Failed to execute block command"])]

\* One entry of blocks per invocation: the command is printed, and run when
\* execute_block is set; a run that raises prints to standard error.
_block_ip(s, ip) ==
  LET s1 == Step(s, [s EXCEPT !.blocks = Append(@, [ip |-> ip, executed |-> execute_block]),
                              !.stdout = Append(@, [tag |-> "ACTION", ip |-> ip])])
      s2 == [s1 EXCEPT !.executions = Append(@, [ip |-> ip, ok |-> s.env.exec_ok])]
  IN  IF execute_block
        THEN Step(s1, IF s.env.exec_ok
                        THEN s2
                        ELSE [s2 EXCEPT !.stderr = Append(@, [tag |-> "Failed to execute block command"])])
        ELSE s1

\* record_failed with the test len(dq) > failed_threshold.
record_failed_strict(s, ip) ==
  LET now == s.utcnow
      s1 == [s EXCEPT !.calls = Append(@, [rule |-> "record_failed", ip |-> ip, now |-> now]),
                      !.failed = Vivify(@, ip, <<>>)]
      dq == _prune(Append(s1.failed[ip], now), now - window)
      s2 == [s1 EXCEPT !.failed[ip] = dq]
      s3 == _alert(s2, "brute_force_suspected", [ip |-> ip, count |-> Len(dq), window_s |-> window])
  IN  IF Len(dq) > failed_threshold
        THEN IF ~dry_run THEN _block_ip(s3, ip) ELSE s3
        ELSE s2

\* record_failed without the dry_run test: the block follows every alert.
record_failed_ungated(s, ip) ==
  LET now == s.utcnow
      s1 == [s EXCEPT !.calls = Append(@, [rule |-> "record_failed", ip |-> ip, now |-> now]),
                      !.failed = Vivify(@, ip, <<>>)]
      dq == _prune(Append(s1.failed[ip], now), now - window)
      s2 == [s1 EXCEPT !.failed[ip] = dq]
      s3 == _alert(s2, "brute_force_suspected", [ip |-> ip, count |-> Len(dq), window_s |-> window])
  IN  IF Len(dq) >= failed_threshold THEN _block_ip(s3, ip) ELSE s2

\* record_failed deleting the IP's key when pruning leaves its deque empty.
record_failed_evicting(s, ip) ==
  LET now == s.utcnow
      s1 == [s EXCEPT !.calls = Append(@, [rule |-> "record_failed", ip |-> ip, now |-> now]),
                      !.failed = Vivify(@, ip, <<>>)]
      dq == _prune(Append(s1.failed[ip], now), now - window)
      s2 == IF dq = <<>>
              THEN [s1 EXCEPT !.failed = [k \in DOMAIN s1.failed \ {ip} |-> s1.failed[k]]]
              ELSE [s1 EXCEPT !.failed[ip] = dq]
      s3 == _alert(s2, "brute_force_suspected", [ip |-> ip, count |-> Len(dq), window_s |-> window])
  IN  IF Len(dq) >= failed_threshold
        THEN IF ~dry_run THEN _block_ip(s3, ip) ELSE s3
        ELSE s2

\* record_failed pruning the deque of every IP, not only that of the event.
record_failed_sweeping(s, ip) ==
  LET now == s.utcnow
      s1 == [s EXCEPT !.calls = Append(@, [rule |-> "record_failed", ip |-> ip, now |-> now]),
                      !.failed = Vivify(@, ip, <<>>)]
      s2 == [s1 EXCEPT !.failed =
               [k \in DOMAIN s1.failed |->
                  _prune(IF k = ip THEN Append(s1.failed[k], now) ELSE s1.failed[k], now - window)]]
      dq == s2.failed[ip]
      s3 == _alert(s2, "brute_force_suspected", [ip |-> ip, count |-> Len(dq), window_s |-> window])
  IN  IF Len(dq) >= failed_threshold
        THEN IF ~dry_run THEN _block_ip(s3, ip) ELSE s3
        ELSE s2

\* record_failed requesting the block before it emits the alert.
record_failed_block_first(s, ip) ==
  LET now == s.utcnow
      s1 == [s EXCEPT !.calls = Append(@, [rule |-> "record_failed", ip |-> ip, now |-> now]),
                      !.failed = Vivify(@, ip, <<>>)]
      dq == _prune(Append(s1.failed[ip], now), now - window)
      s2 == [s1 EXCEPT !.failed[ip] = dq]
      s3 == IF ~dry_run THEN _block_ip(s2, ip) ELSE s2
  IN  IF Len(dq) >= failed_threshold
        THEN _alert(s3, "brute_force_suspected", [ip |-> ip, count |-> Len(dq), window_s |-> window])
        ELSE s2

record_failed(s, ip) ==
  LET now == s.utcnow
      s1 == [s EXCEPT !.calls = Append(@, [rule |-> "record_failed", ip |-> ip, now |-> now]),
                      !.failed = Vivify(@, ip, <<>>)]
      dq == _prune(Append(s1.failed[ip], now), now - window)
      s2 == [s1 EXCEPT !.failed[ip] = dq]
      s3 == _alert(s2, "brute_force_suspected", [ip |-> ip, count |-> Len(dq), window_s |-> window])
  IN  IF Len(dq) >= failed_threshold
        THEN IF ~dry_run THEN _block_ip(s3, ip) ELSE s3
        ELSE s2

\* record_invalid_user alerting on the crossing only: len(dq) == invalid_threshold.
record_invalid_user_once(s, ip, user) ==
  LET now == s.utcnow
      s1 == [s EXCEPT !.calls = Append(@, [rule |-> "record_invalid_user", ip |-> ip, user |-> user, now |-> now]),
                      !.invalid_user = Vivify(@, ip, <<>>)]
      dq == _prune(Append(s1.invalid_user[ip], now), now - window)
      s2 == [s1 EXCEPT !.invalid_user[ip] = dq]
      s3 == _alert(s2, "invalid_user_burst", [ip |-> ip, user |-> user, count |-> Len(dq)])
  IN  IF Len(dq) = invalid_threshold
        THEN IF ~dry_run THEN _block_ip(s3, ip) ELSE s3
        ELSE s2

\* record_invalid_user working on self.failed instead of self.invalid_user.
record_invalid_user_shared(s, ip, user) ==
  LET now == s.utcnow
      s1 == [s EXCEPT !.calls = Append(@, [rule |-> "record_invalid_user", ip |-> ip, user |-> user, now |-> now]),
                      !.failed = Vivify(@, ip, <<>>)]
      dq == _prune(Append(s1.failed[ip], now), now - window)
      s2 == [s1 EXCEPT !.failed[ip] = dq]
      s3 == _alert(s2, "invalid_user_burst", [ip |-> ip, user |-> user, count |-> Len(dq)])
  IN  IF Len(dq) >= invalid_threshold
        THEN IF ~dry_run THEN _block_ip(s3, ip) ELSE s3
        ELSE s2

record_invalid_user(s, ip, user) ==
  LET now == s.utcnow
      s1 == [s EXCEPT !.calls = Append(@, [rule |-> "record_invalid_user", ip |-> ip, user |-> user, now |-> now]),
                      !.invalid_user = Vivify(@, ip, <<>>)]
      dq == _prune(Append(s1.invalid_user[ip], now), now - window)
      s2 == [s1 EXCEPT !.invalid_user[ip] = dq]
      s3 == _alert(s2, "invalid_user_burst", [ip |-> ip, user |-> user, count |-> Len(dq)])
  IN  IF Len(dq) >= invalid_threshold
        THEN IF ~dry_run THEN _block_ip(s3, ip) ELSE s3
        ELSE s2

\* record_success without known_user_ips[user].add(ip).
record_success_forgetful(s, user, ip) ==
  LET now == s.utcnow
      s1 == [s EXCEPT !.calls = Append(@, [rule |-> "record_success", ip |-> ip, user |-> user, now |-> now]),
                      !.failed = Vivify(@, ip, <<>>)]
      fail_count == Len(s1.failed[ip])
      s2 == IF fail_count >= Max(1, failed_threshold \div 2)
              THEN _alert(s1, "successful_after_failures", [user |-> user, ip |-> ip, recent_failed |-> fail_count])
              ELSE s1
      s3 == [s2 EXCEPT !.known_user_ips = Vivify(@, user, {})]
      s4 == IF ip \notin s3.known_user_ips[user]
              THEN _alert(s3, "login_from_new_ip", [user |-> user, ip |-> ip])
              ELSE s3
      s5 == [s4 EXCEPT !.successful_logins = Vivify(@, user, <<>>)]
  IN  [s5 EXCEPT !.successful_logins[user] = BoundedAppend(@, <<ip, now>>, HistoryMaxLen)]

\* record_success pruning the IP's failed timestamps before it counts them.
record_success_pruning(s, user, ip) ==
  LET now == s.utcnow
      s0 == [s EXCEPT !.calls = Append(@, [rule |-> "record_success", ip |-> ip, user |-> user, now |-> now]),
                      !.failed = Vivify(@, ip, <<>>)]
      s1 == [s0 EXCEPT !.failed[ip] = _prune(@, now - window)]
      fail_count == Len(s1.failed[ip])
      s2 == IF fail_count >= Max(1, failed_threshold \div 2)
              THEN _alert(s1, "successful_after_failures", [user |-> user, ip |-> ip, recent_failed |-> fail_count])
              ELSE s1
      s3 == [s2 EXCEPT !.known_user_ips = Vivify(@, user, {})]
      s4 == IF ip \notin s3.known_user_ips[user]
              THEN [_alert(s3, "login_from_new_ip", [user |-> user, ip |-> ip])
                      EXCEPT !.known_user_ips[user] = @ \cup {ip}]
              ELSE s3
      s5 == [s4 EXCEPT !.successful_logins = Vivify(@, user, <<>>)]
  IN  [s5 EXCEPT !.successful_logins[user] = BoundedAppend(@, <<ip, now>>, HistoryMaxLen)]

\* record_success keeping one set of known IPs for all users.
record_success_shared(s, user, ip) ==
  LET now == s.utcnow
      s1 == [s EXCEPT !.calls = Append(@, [rule |-> "record_success", ip |-> ip, user |-> user, now |-> now]),
                      !.failed = Vivify(@, ip, <<>>)]
      fail_count == Len(s1.failed[ip])
      s2 == IF fail_count >= Max(1, failed_threshold \div 2)
              THEN _alert(s1, "successful_after_failures", [user |-> user, ip |-> ip, recent_failed |-> fail_count])
              ELSE s1
      s3 == [s2 EXCEPT !.known_user_ips = Vivify(@, user, {})]
      s4 == IF \A u \in DOMAIN s3.known_user_ips : ip \notin s3.known_user_ips[u]
              THEN [_alert(s3, "login_from_new_ip", [user |-> user, ip |-> ip])
                      EXCEPT !.known_user_ips[user] = @ \cup {ip}]
              ELSE [s3 EXCEPT !.known_user_ips[user] = @ \cup {ip}]
      s5 == [s4 EXCEPT !.successful_logins = Vivify(@, user, <<>>)]
  IN  [s5 EXCEPT !.successful_logins[user] = BoundedAppend(@, <<ip, now>>, HistoryMaxLen)]

record_success(s, user, ip) ==
  LET now == s.utcnow
      s1 == [s EXCEPT !.calls = Append(@, [rule |-> "record_success", ip |-> ip, user |-> user, now |-> now]),
                      !.failed = Vivify(@, ip, <<>>)]
      fail_count == Len(s1.failed[ip])
      s2 == IF fail_count >= Max(1, failed_threshold \div 2)
              THEN _alert(s1, "successful_after_failures", [user |-> user, ip |-> ip, recent_failed |-> fail_count])
              ELSE s1
      s3 == IF s2.raised THEN s2 ELSE [s2 EXCEPT !.known_user_ips = Vivify(@, user, {})]
      a4 == _alert(s3, "login_from_new_ip", [user |-> user, ip |-> ip])
      s4 == IF s3.raised \/ ip \in s3.known_user_ips[user] THEN s3
            ELSE IF a4.raised THEN a4
            ELSE [a4 EXCEPT !.known_user_ips[user] = @ \cup {ip}]
      s5 == [s4 EXCEPT !.successful_logins = Vivify(@, user, <<>>)]
  IN  IF s4.raised THEN s4
      ELSE [s5 EXCEPT !.successful_logins[user] = BoundedAppend(@, <<ip, now>>, HistoryMaxLen)]

\* parse_line trying INVALID_USER_RE before FAILED_RE.
parse_line_reordered(s, ln) ==
  IF ln.INVALID_USER_RE # {}
    THEN record_invalid_user(s, Match(ln.INVALID_USER_RE).ip, Match(ln.INVALID_USER_RE).user)
  ELSE IF ln.FAILED_RE # {} THEN record_failed(s, Match(ln.FAILED_RE).ip)
  ELSE IF ln.ACCEPTED_RE # {}
    THEN record_success(s, Match(ln.ACCEPTED_RE).user, Match(ln.ACCEPTED_RE).ip)
  ELSE IF ln.PAM_FAILED_RE # {} THEN record_failed(s, Match(ln.PAM_FAILED_RE).ip)
  ELSE s

\* parse_line taking no account of PAM_FAILED_RE.
parse_line_without_pam(s, ln) ==
  IF ln.FAILED_RE # {} THEN record_failed(s, Match(ln.FAILED_RE).ip)
  ELSE IF ln.INVALID_USER_RE # {}
    THEN record_invalid_user(s, Match(ln.INVALID_USER_RE).ip, Match(ln.INVALID_USER_RE).user)
  ELSE IF ln.ACCEPTED_RE # {}
    THEN record_success(s, Match(ln.ACCEPTED_RE).user, Match(ln.ACCEPTED_RE).ip)
  ELSE s

parse_line(s, ln) ==
  IF ln.FAILED_RE # {} THEN record_failed(s, Match(ln.FAILED_RE).ip)
  ELSE IF ln.INVALID_USER_RE # {}
    THEN record_invalid_user(s, Match(ln.INVALID_USER_RE).ip, Match(ln.INVALID_USER_RE).user)
  ELSE IF ln.ACCEPTED_RE # {}
    THEN record_success(s, Match(ln.ACCEPTED_RE).user, Match(ln.ACCEPTED_RE).ip)
  ELSE IF ln.PAM_FAILED_RE # {} THEN record_failed(s, Match(ln.PAM_FAILED_RE).ip)
  ELSE s

----------------------------------------------------------------------------
(* Actions *)

\* SSHEdr.__init__ called as in __main__, with one of the configurations.
Init ==
  /\ \E c \in Configs :
       /\ failed_threshold = c.failed_threshold
       /\ window = c.window_seconds
       /\ invalid_threshold = c.invalid_threshold
       /\ dry_run = c.dry_run
       /\ execute_block = c.execute_block
  /\ failed = <<>>
  /\ invalid_user = <<>>
  /\ successful_logins = <<>>
  /\ known_user_ips = <<>>
  /\ alerts = <<>>
  /\ blocks = <<>>
  /\ stdout = <<>>
  /\ stderr = <<>>
  /\ alert_file = <<>>
  /\ executions = <<>>
  /\ pc = "running"
  /\ line = NoMatch
  /\ calls = <<>>
  /\ lineAlerts = <<>>
  /\ lineBlocks = <<>>
  /\ nEvents = 0
  /\ failedHist = [ip \in IPs |-> <<>>]
  /\ invalidHist = [ip \in IPs |-> <<>>]
  /\ successHist = [u \in Users |-> <<>>]
  /\ failureKinds = [ip \in IPs |-> <<>>]

\* The arrival times, in order, of the calls of `rule` for `ip` among cs.
RECURSIVE Arrivals(_, _, _)
Arrivals(cs, rule, ip) ==
  IF cs = <<>> THEN <<>>
  ELSE (IF Head(cs).rule = rule /\ Head(cs).ip = ip THEN <<Head(cs).now>> ELSE <<>>)
         \o Arrivals(Tail(cs), rule, ip)

\* The failure a line reports for `ip`, named by the pattern that makes it
\* one: FAILED_RE, or PAM_FAILED_RE on a line no earlier pattern matches.
FailureKind(ln, ip) ==
  IF ln.FAILED_RE # {}
    THEN IF Match(ln.FAILED_RE).ip = ip THEN <<"FAILED_RE">> ELSE <<>>
  ELSE IF ln.INVALID_USER_RE = {} /\ ln.ACCEPTED_RE = {} /\ ln.PAM_FAILED_RE # {}
    THEN IF Match(ln.PAM_FAILED_RE).ip = ip THEN <<"PAM_FAILED_RE">> ELSE <<>>
  ELSE <<>>

\* The <<ip, time>> pairs, in order, of the calls of record_success for `user`.
RECURSIVE Logins(_, _)
Logins(cs, user) ==
  IF cs = <<>> THEN <<>>
  ELSE (IF Head(cs).rule = "record_success" /\ Head(cs).user = user
          THEN <<(<<Head(cs).ip, Head(cs).now>>)>> ELSE <<>>)
         \o Logins(Tail(cs), user)

\* The object and its surroundings as parse_line finds them, the clock
\* reading t and the environment env.
Before(t, env) ==
  [failed |-> failed, invalid_user |-> invalid_user,
   successful_logins |-> successful_logins, known_user_ips |-> known_user_ips,
   alerts |-> alerts, blocks |-> blocks, stdout |-> stdout, stderr |-> stderr,
   alert_file |-> alert_file, executions |-> executions,
   calls |-> <<>>, utcnow |-> t, env |-> env, attempts |-> 0,
   steps |-> 0, raised |-> FALSE]

\* The notice and json.dumps(edr.alerts, indent=2) printed on
\* KeyboardInterrupt, with only the latest alert in the array.
Dump_latest(as) ==
  <<[tag |-> "NOTICE"], [tag |-> "DUMP", alerts |-> IF as = <<>> THEN <<>> ELSE <<as[Len(as)]>>]>>

\* The notice and json.dumps(edr.alerts, indent=2) printed on KeyboardInterrupt.
Dump(as) == <<[tag |-> "NOTICE"], [tag |-> "DUMP", alerts |-> as]>>

\* What one iteration of the loop leaves behind, s1 being the object and its
\* surroundings when parse_line(ln) returns or raises KeyboardInterrupt; in
\* the latter case the handler of __main__ prints the dump and the process
\* ends.
Outcome(s1, ln) ==
  /\ failed' = s1.failed
  /\ invalid_user' = s1.invalid_user
  /\ successful_logins' = s1.successful_logins
  /\ known_user_ips' = s1.known_user_ips
  /\ alerts' = s1.alerts
  /\ blocks' = s1.blocks
  /\ stdout' = IF s1.raised THEN s1.stdout \o Dump(s1.alerts) ELSE s1.stdout
  /\ stderr' = s1.stderr
  /\ alert_file' = s1.alert_file
  /\ executions' = s1.executions
  /\ pc' = IF s1.raised THEN "interrupted" ELSE "running"
  /\ line' = ln
  /\ calls' = s1.calls
  /\ lineAlerts' = SubSeq(s1.alerts, Len(alerts) + 1, Len(s1.alerts))
  /\ lineBlocks' = SubSeq(s1.blocks, Len(blocks) + 1, Len(s1.blocks))
  /\ nEvents' = nEvents + 1
  /\ failedHist' = [ip \in IPs |-> failedHist[ip] \o Arrivals(s1.calls, "record_failed", ip)]
  /\ invalidHist' = [ip \in IPs |-> invalidHist[ip] \o Arrivals(s1.calls, "record_invalid_user", ip)]
  /\ successHist' = [u \in Users |-> successHist[u] \o Logins(s1.calls, u)]
  /\ failureKinds' = [ip \in IPs |-> failureKinds[ip] \o FailureKind(ln, ip)]
  /\ UNCHANGED cfgVars

\* One iteration of the loop of SSHEdr.run: parse_line(ln), with the clock
\* reading t, in the environment env.
HandleIn(ln, t, env) ==
  /\ pc = "running"
  /\ \E s1 \in {parse_line(Before(t, env), ln)} : Outcome(s1, ln)

\* An iteration during which every write and every command succeeds.
Handle(ln, t) == HandleIn(ln, t, AllOk)

\* The loop reads the next line of an ordinary log: it matches at most one pattern.
Ingest ==
  /\ nEvents < MaxEvents
  /\ \E ln \in SingleLines, t \in Times : Handle(ln, t)

Next == Ingest

Spec == Init /\ [][Next]_vars

\* The loop reads any line: each pattern matches it or not.  Classification
\* reads no clock; the lines arrive one second apart.
IngestAny ==
  /\ nEvents < MaxParseLines
  /\ \E ln \in AllLines : Handle(ln, nEvents)

NextParse == IngestAny

SpecParse == Init /\ [][NextParse]_vars

\* The loop reads one user's accepted logins, one second apart.
IngestLogin ==
  /\ nEvents < MaxLogins
  /\ Handle(AcceptedLine("u1", "ip1"), nEvents)

NextLogins == IngestLogin

SpecLogins == Init /\ [][NextLogins]_vars

\* The loop reads a line while the alert file and the block command may
\* fail; the lines arrive one second apart.
IngestIO ==
  /\ nEvents < MaxIOEvents
  /\ \E ln \in SingleLines, env \in Envs : HandleIn(ln, nEvents, env)

\* KeyboardInterrupt while the loop waits for a line (ssh_edr.py:185-187):
\* the notice and the collected alerts are printed, and the process ends.
Interrupt ==
  /\ pc = "running"
  /\ pc' = "interrupted"
  /\ stdout' = stdout \o Dump(alerts)
  /\ UNCHANGED <<cfgVars, edrVars, blocks, stderr, alert_file, executions, lineVars, nEvents, histVars>>

\* KeyboardInterrupt while a line is being handled: what parse_line had done
\* by then stays done, the rest of the line is not handled.
InterruptedLine ==
  /\ pc = "running"
  /\ nEvents < MaxIOEvents
  /\ \E ln \in SingleLines, env \in InterruptedEnvs :
       \E s1 \in {parse_line(Before(nEvents, env), ln)} : s1.raised /\ Outcome(s1, ln)

\* The input ends: edr.run returns and the process ends.
EndOfInput ==
  /\ pc = "running"
  /\ pc' = "eof"
  /\ UNCHANGED <<cfgVars, edrVars, blocks, ioVars, lineVars, nEvents, histVars>>

NextIO == IngestIO \/ Interrupt \/ InterruptedLine \/ EndOfInput

SpecIO == Init /\ [][NextIO]_vars

----------------------------------------------------------------------------
(* Vocabulary of the properties *)

\* The last line made exactly one rule invocation, of `rule`.
Invoked(rule) == Len(calls) = 1 /\ calls[1].rule = rule

Sorted(h) == \A i \in 1..(Len(h) - 1) : h[i] <= h[i + 1]

\* The entries of h with lo <= h[i] <= hi, in order.
Within(h, lo, hi) == SelectSeq(h, LAMBDA x : lo <= x /\ x <= hi)

\* The alerts of kind `kind` among as, in order.
OfKind(as, kind) == SelectSeq(as, LAMBDA a : a.kind = kind)

Occurrences(h, x) == Cardinality({i \in 1..Len(h) : h[i] = x})

----------------------------------------------------------------------------
(* C1  Window correctness *)

\* The last line was the k-th failed event of ip, the IP's failed events
\* arrived in non-decreasing order and all k lie within the window.
BurstOf(ip, k) ==
  /\ Invoked("record_failed") /\ calls[1].ip = ip
  /\ Len(failedHist[ip]) = k
  /\ Sorted(failedHist[ip])
  /\ failedHist[ip][k] - failedHist[ip][1] <= window

\* C1: with failed_threshold = T >= 1, of the first T+1 failed events of an
\* IP, arriving in non-decreasing order within the window, events 1..T-1
\* emit no alert, and events T and T+1 each emit exactly one alert,
\* brute_force_suspected with that ip, count = T (resp. T+1) and
\* window_s = window.
C1_WindowCorrectness ==
  \A ip \in IPs : \A k \in 1..(failed_threshold + 1) :
    (failed_threshold >= 1 /\ BurstOf(ip, k)) =>
      IF k < failed_threshold
        THEN lineAlerts = <<>>
        ELSE /\ Len(lineAlerts) = 1
             /\ lineAlerts[1].kind = "brute_force_suspected"
             /\ lineAlerts[1].info = [ip |-> ip, count |-> k, window_s |-> window]

\* The (T+1)-th failed event of a burst has emitted the second alert, T >= 2.
C1_Witness ==
  \E ip \in IPs :
    /\ failed_threshold = 2
    /\ BurstOf(ip, 3)
    /\ Len(OfKind(alerts, "brute_force_suspected")) = 2
    /\ lineAlerts[1].info.count = 3

----------------------------------------------------------------------------
(* C2  Window bound invariant *)

\* The sequence dq kept for the key of the last call satisfies the bound:
\* with h the arrival times of every event of that kind for the key, in
\* non-decreasing order, dq holds exactly the arrivals in [now - window, now].
WindowBound(dq, h, now) ==
  Sorted(h) =>
    /\ \A i \in 1..Len(dq) : dq[i] >= now - window
    /\ dq = Within(h, now - window, now)

\* C2: right after record_failed(ip) (resp. record_invalid_user(ip, user))
\* at arrival time now, when the IP's events of that kind arrived in
\* non-decreasing order, every kept timestamp is >= now - window, the kept
\* sequence is exactly the arrivals in [now - window, now] (an entry at the
\* cutoff stays), and an alert emitted for the event reports that count.
C2_WindowBound ==
  /\ Invoked("record_failed") =>
       LET ip == calls[1].ip IN
       /\ WindowBound(failed[ip], failedHist[ip], calls[1].now)
       /\ Sorted(failedHist[ip]) =>
            \A i \in 1..Len(lineAlerts) :
              lineAlerts[i].info.count = Len(Within(failedHist[ip], calls[1].now - window, calls[1].now))
  /\ Invoked("record_invalid_user") =>
       LET ip == calls[1].ip IN
       /\ WindowBound(invalid_user[ip], invalidHist[ip], calls[1].now)
       /\ Sorted(invalidHist[ip]) =>
            \A i \in 1..Len(lineAlerts) :
              lineAlerts[i].info.count = Len(Within(invalidHist[ip], calls[1].now - window, calls[1].now))

\* A failed event has pruned an older entry and kept one exactly at the cutoff.
C2_Witness ==
  /\ Invoked("record_failed")
  /\ LET ip == calls[1].ip
         h == failedHist[ip]
     IN  /\ Len(h) = 3
         /\ Sorted(h)
         /\ h[1] < calls[1].now - window
         /\ h[2] = calls[1].now - window
         /\ failed[ip] = <<h[2], h[3]>>

----------------------------------------------------------------------------
(* C3  No cooldown *)

\* The alerts of the threshold rules among as.
ThresholdAlerts(as) == OfKind(as, "brute_force_suspected") \o OfKind(as, "invalid_user_burst")

\* The alerts of kind `kind` among as whose info names ip.
AlertsFor(as, kind, ip) == SelectSeq(as, LAMBDA a : a.kind = kind /\ a.info.ip = ip)

\* C3: a failed event emits a brute_force_suspected alert if and only if
\* the IP's post-prune count is >= failed_threshold, an invalid-user event
\* emits an invalid_user_burst alert if and only if the IP's post-prune
\* count is >= invalid_threshold, whatever was alerted before, and no line
\* emits more than one such alert.
C3_NoCooldown ==
  /\ Invoked("record_failed") =>
       Len(AlertsFor(lineAlerts, "brute_force_suspected", calls[1].ip))
         = (IF Len(failed[calls[1].ip]) >= failed_threshold THEN 1 ELSE 0)
  /\ Invoked("record_invalid_user") =>
       Len(AlertsFor(lineAlerts, "invalid_user_burst", calls[1].ip))
         = (IF Len(invalid_user[calls[1].ip]) >= invalid_threshold THEN 1 ELSE 0)
  /\ Len(ThresholdAlerts(lineAlerts)) <= 1

\* An invalid-user event alerts for an IP that has been alerted twice before.
C3_Witness ==
  /\ Invoked("record_invalid_user")
  /\ Len(AlertsFor(lineAlerts, "invalid_user_burst", calls[1].ip)) = 1
  /\ Len(AlertsFor(alerts, "invalid_user_burst", calls[1].ip)) = 3
  /\ lineAlerts[1].info.count > invalid_threshold

----------------------------------------------------------------------------
(* C4  Dry-run gating *)

\* C4: with dry_run set no block request is ever issued; with dry_run
\* clear, a line that emits a brute_force_suspected or invalid_user_burst
\* alert issues exactly one block request, for the IP of its event, and a
\* line that emits neither issues none.
C4_DryRunGating ==
  /\ dry_run => blocks = <<>>
  /\ ~dry_run =>
       IF ThresholdAlerts(lineAlerts) # <<>>
         THEN Len(lineBlocks) = 1 /\ Len(calls) = 1 /\ lineBlocks[1].ip = calls[1].ip
         ELSE lineBlocks = <<>>

\* With dry_run clear, an IP that was already blocked is blocked again.
C4_Witness ==
  /\ ~dry_run
  /\ Len(lineBlocks) = 1
  /\ Len(SelectSeq(blocks, LAMBDA b : b.ip = lineBlocks[1].ip)) >= 2
  /\ ThresholdAlerts(lineAlerts) # <<>>

----------------------------------------------------------------------------
(* C5  New-IP-per-user idempotence *)

\* The logins of `user` from `ip` processed so far.
LoginsFrom(user, ip) == SelectSeq(successHist[user], LAMBDA e : e[1] = ip)

NewIpAlerts(as, user, ip) ==
  SelectSeq(as, LAMBDA a : a.kind = "login_from_new_ip" /\ a.info = [user |-> user, ip |-> ip])

\* C5: a SuccessfulLogin{user, ip} emits login_from_new_ip{user, ip} exactly
\* when it is the first one processed for that pair, whatever else was
\* processed in between, so the alert log holds at most one
\* login_from_new_ip alert per (user, ip).
C5_NewIpIdempotence ==
  /\ \A u \in Users, ip \in IPs : Len(NewIpAlerts(alerts, u, ip)) <= 1
  /\ Invoked("record_success") =>
       Len(NewIpAlerts(lineAlerts, calls[1].user, calls[1].ip))
         = (IF Len(LoginsFrom(calls[1].user, calls[1].ip)) = 1 THEN 1 ELSE 0)

\* A pair logs in again after its first login and another event in between:
\* the log holds the one alert of the first login.
C5_Witness ==
  /\ Invoked("record_success")
  /\ nEvents = 3
  /\ Len(LoginsFrom(calls[1].user, calls[1].ip)) = 2
  /\ NewIpAlerts(lineAlerts, calls[1].user, calls[1].ip) = <<>>
  /\ Len(NewIpAlerts(alerts, calls[1].user, calls[1].ip)) = 1

----------------------------------------------------------------------------
(* C6  Successful-after-failures rule *)

\* The step handles a line for which parse_line invokes `rule`, once.
Invokes(rule) == nEvents' = nEvents + 1 /\ Len(calls') = 1 /\ calls'[1].rule = rule

\* The length of the sequence stored for ip in map, 0 when ip is no key.
Stored(map, ip) == IF ip \in DOMAIN map THEN Len(map[ip]) ELSE 0

\* C6: a SuccessfulLogin{user, ip} emits successful_after_failures if and
\* only if the length of the IP's failed timestamps as stored before the
\* login, unpruned, is >= max(1, failed_threshold // 2); the alert carries
\* that user, ip and recent_failed = that length.  Nothing else counts.
C6_SuccessAfterFailures ==
  [][Invokes("record_success") =>
       LET n == Stored(failed, calls'[1].ip)
           saf == OfKind(lineAlerts', "successful_after_failures")
       IN  /\ Len(saf) = (IF n >= Max(1, failed_threshold \div 2) THEN 1 ELSE 0)
           /\ \A i \in 1..Len(saf) :
                saf[i].info = [user |-> calls'[1].user, ip |-> calls'[1].ip, recent_failed |-> n]]_vars

\* A login alerts on failures that are all older than the window.
C6_Witness ==
  /\ Invoked("record_success")
  /\ Len(OfKind(lineAlerts, "successful_after_failures")) = 1
  /\ failed[calls[1].ip] # <<>>
  /\ \A i \in 1..Len(failed[calls[1].ip]) : failed[calls[1].ip][i] < calls[1].now - window

----------------------------------------------------------------------------
(* C7  Invalid-user burst independence *)

\* as is the one alert of kind `kind` with info `info`.
OneAlert(as, kind, info) == Len(as) = 1 /\ as[1].kind = kind /\ as[1].info = info

\* C7: an invalid-user event changes no IP's failed timestamps, is counted
\* in invalid_user alone and compared with invalid_threshold alone: it
\* emits invalid_user_burst{ip, user, count}, with its own user, exactly
\* when the IP's invalid-user count reaches invalid_threshold, and never
\* brute_force_suspected.  A failed event, in the same way, changes no
\* IP's invalid-user timestamps and emits brute_force_suspected exactly
\* when the IP's failed count reaches failed_threshold.
C7_BurstIndependence ==
  [][/\ Invokes("record_invalid_user") =>
          LET ip == calls'[1].ip
              n == Len(invalid_user'[ip])
          IN  /\ failed' = failed
              /\ n <= Len(invalidHist'[ip])
              /\ IF n >= invalid_threshold
                   THEN OneAlert(lineAlerts', "invalid_user_burst",
                                 [ip |-> ip, user |-> calls'[1].user, count |-> n])
                   ELSE lineAlerts' = <<>>
     /\ Invokes("record_failed") =>
          LET ip == calls'[1].ip
              n == Len(failed'[ip])
          IN  /\ invalid_user' = invalid_user
              /\ n <= Len(failedHist'[ip])
              /\ IF n >= failed_threshold
                   THEN OneAlert(lineAlerts', "brute_force_suspected",
                                 [ip |-> ip, count |-> n, window_s |-> window])
                   ELSE lineAlerts' = <<>>]_vars

\* The invalid-user events of an IP reach invalid_threshold = 2 and alert
\* with count 2, a failed event of the same IP lying in between.
C7_Witness ==
  /\ Invoked("record_invalid_user")
  /\ invalid_threshold = 2
  /\ failedHist[calls[1].ip] # <<>>
  /\ OneAlert(lineAlerts, "invalid_user_burst", [ip |-> calls[1].ip, user |-> calls[1].user, count |-> 2])
  /\ OfKind(alerts, "brute_force_suspected") = <<>>

----------------------------------------------------------------------------
(* C8  Bounded history *)

Min(a, b) == IF a <= b THEN a ELSE b

\* The last n entries of h.
LastN(h, n) == SubSeq(h, Len(h) - n + 1, Len(h))

\* C8: each user's success history holds at most 50 entries and is the
\* most recent min(n, 50) of the user's n successful logins, in order.
C8_BoundedHistory ==
  \A u \in Users :
    LET kept == IF u \in DOMAIN successful_logins THEN successful_logins[u] ELSE <<>>
    IN  /\ Len(kept) <= 50
        /\ kept = LastN(successHist[u], Min(Len(successHist[u]), 50))

\* The 52nd login: the history holds 50 entries, the two oldest evicted.
C8_Witness ==
  /\ Len(successHist["u1"]) = 52
  /\ Len(successful_logins["u1"]) = 50
  /\ successful_logins["u1"][1] = successHist["u1"][3]
  /\ successful_logins["u1"][50] = successHist["u1"][52]

----------------------------------------------------------------------------
(* C9  First-match-wins classification *)

\* The patterns in the order parse_line tries them, and the rule of each.
Priority == <<"FAILED_RE", "INVALID_USER_RE", "ACCEPTED_RE", "PAM_FAILED_RE">>

RuleOf == <<"record_failed", "record_invalid_user", "record_success", "record_failed">>

Matching(ln) == {i \in 1..4 : ln[Priority[i]] # {}}

\* The call c is the rule of pattern i, with the groups pattern i captured in ln.
CallOf(c, ln, i) ==
  /\ c.rule = RuleOf[i]
  /\ c.ip = Match(ln[Priority[i]]).ip
  /\ i \in {2, 3} => c.user = Match(ln[Priority[i]]).user

\* C9: for a line matching some patterns, parse_line makes exactly one rule
\* invocation, the one of the first matching pattern in the fixed order,
\* with that pattern's captures; for a line matching none it makes no
\* invocation, emits no alert and leaves the engine state unchanged.
C9_FirstMatchWins ==
  [][nEvents' = nEvents + 1 =>
       IF Matching(line') = {}
         THEN /\ calls' = <<>>
              /\ lineAlerts' = <<>>
              /\ lineBlocks' = <<>>
              /\ UNCHANGED <<edrVars, blocks, histVars>>
         ELSE /\ Len(calls') = 1
              /\ \E i \in Matching(line') :
                   /\ \A j \in Matching(line') : i <= j
                   /\ CallOf(calls'[1], line', i)]_vars

\* A second line matching all four patterns, each with other captures, has
\* invoked record_failed with the capture of FAILED_RE.
C9_Witness ==
  /\ nEvents = 2
  /\ Matching(line) = 1..4
  /\ Match(line.FAILED_RE).ip # Match(line.INVALID_USER_RE).ip
  /\ Match(line.FAILED_RE).ip # Match(line.PAM_FAILED_RE).ip
  /\ Invoked("record_failed")
  /\ calls[1].ip = Match(line.FAILED_RE).ip
  /\ failed # <<>>

----------------------------------------------------------------------------
(* C10  Per-IP window lifecycle *)

\* C10: an IP is a key of the failed or of the invalid-user map only after
\* a failure or invalid-user event of that IP has been processed.
C10_PerIpLifecycle ==
  \A ip \in IPs :
    (ip \in DOMAIN failed \/ ip \in DOMAIN invalid_user) =>
      (failedHist[ip] # <<>> \/ invalidHist[ip] # <<>>)

----------------------------------------------------------------------------
(* C11  No key removal *)

\* The step handles a line that makes a rule invocation for ip (resp. user).
TouchesIp(ip) == nEvents' = nEvents + 1 /\ \E i \in 1..Len(calls') : calls'[i].ip = ip

TouchesUser(user) ==
  /\ nEvents' = nEvents + 1
  /\ \E i \in 1..Len(calls') : calls'[i].rule = "record_success" /\ calls'[i].user = user

\* C11: in every step the key sets of failed, invalid_user, known_user_ips
\* and successful_logins only grow, as does each user's set of known IPs;
\* a key that receives no event keeps exactly the state it had.
C11_NoKeyRemoval ==
  [][/\ DOMAIN failed \subseteq DOMAIN failed'
     /\ DOMAIN invalid_user \subseteq DOMAIN invalid_user'
     /\ DOMAIN known_user_ips \subseteq DOMAIN known_user_ips'
     /\ DOMAIN successful_logins \subseteq DOMAIN successful_logins'
     /\ \A u \in DOMAIN known_user_ips : known_user_ips[u] \subseteq known_user_ips'[u]
     /\ \A ip \in DOMAIN failed : ~TouchesIp(ip) => failed'[ip] = failed[ip]
     /\ \A ip \in DOMAIN invalid_user : ~TouchesIp(ip) => invalid_user'[ip] = invalid_user[ip]
     /\ \A u \in DOMAIN known_user_ips : ~TouchesUser(u) => known_user_ips'[u] = known_user_ips[u]
     /\ \A u \in DOMAIN successful_logins :
          ~TouchesUser(u) => successful_logins'[u] = successful_logins[u]]_vars

\* Pruning has emptied the failed timestamps of an IP that had two failed
\* events, and the IP is still a key.
C11_Witness ==
  \E ip \in DOMAIN failed :
    /\ failed[ip] = <<>>
    /\ Len(failedHist[ip]) = 2
    /\ nEvents = 3

----------------------------------------------------------------------------
(* C12  Alert ordering *)

\* The alerts printed to standard output, in the order they were printed.
Printed(out) ==
  LET as == SelectSeq(out, LAMBDA e : e.tag = "ALERT")
  IN  [i \in 1..Len(as) |-> as[i].alert]

\* C12: the alert log is append-only and ordered by processing: every step
\* leaves the alerts already in the log where they were, unchanged, and puts
\* the alerts of the line it handles after them, in the order they were
\* emitted.
C12_AlertOrdering ==
  [][/\ Len(alerts') >= Len(alerts)
     /\ SubSeq(alerts', 1, Len(alerts)) = alerts
     /\ nEvents' = nEvents + 1 => alerts' = alerts \o lineAlerts'
     /\ Printed(stdout') = alerts']_vars

\* Two events each produced an alert, and the clock went backwards between
\* them: the log is in processing order, not in timestamp order.
C12_Witness ==
  /\ Len(alerts) = 2
  /\ Len(lineAlerts) = 1
  /\ alerts[1].ts > alerts[2].ts

----------------------------------------------------------------------------
(* C13  Alert persistence failure is not fatal *)

\* The entries of standard error that report a failed write of an alert.
WriteFailures(err) == SelectSeq(err, LAMBDA e : e.tag = "Could not write alert to file")

\* The step handles a line during which a write to the alert file failed.
WriteFailed == nEvents' = nEvents + 1 /\ Len(WriteFailures(stderr')) > Len(WriteFailures(stderr))

\* No KeyboardInterrupt arrives during the step.
Uninterrupted == Len(SelectSeq(stdout', LAMBDA e : e.tag = "DUMP")) = 0

\* C13: when a write to the alert file fails while a line is handled, every
\* alert of the line is still printed and appended to the log, the engine
\* state, the block requests and standard output after the line are those
\* reached when every write succeeds, and the loop keeps running (a
\* KeyboardInterrupt apart, which ends the process whatever the writes do).
C13_WriteFailureNotFatal ==
  [][WriteFailed /\ Uninterrupted =>
       LET ok == parse_line(Before(nEvents, AllOk), line')
       IN  /\ Len(alerts') - Len(alerts)
                = (Len(WriteFailures(stderr')) - Len(WriteFailures(stderr)))
                    + (Len(alert_file') - Len(alert_file)) \div 2
           /\ Printed(stdout') = alerts'
           /\ alerts' = ok.alerts
           /\ failed' = ok.failed
           /\ invalid_user' = ok.invalid_user
           /\ successful_logins' = ok.successful_logins
           /\ known_user_ips' = ok.known_user_ips
           /\ blocks' = ok.blocks
           /\ stdout' = ok.stdout
           /\ pc' = "running"]_vars

\* The first write of a login's two alerts failed and the second succeeded;
\* the user's known IPs and history were still updated, and an earlier line
\* whose write failed still requested its block.
C13_Witness ==
  /\ Len(lineAlerts) = 2
  /\ Len(WriteFailures(stderr)) = 2
  /\ Len(alert_file) = 2
  /\ alert_file[1].alert = alerts[3]
  /\ blocks # <<>>
  /\ Invoked("record_success")
  /\ calls[1].ip \in known_user_ips[calls[1].user]

----------------------------------------------------------------------------
(* C14  Mitigation gating *)

\* The IPs of a sequence of entries that carry one.
IpsOf(es) == [i \in 1..Len(es) |-> es[i].ip]

\* The block commands printed to standard output.
PrintedActions(out) == SelectSeq(out, LAMBDA e : e.tag = "ACTION")

\* The entries of standard error that report a failed block command.
ExecFailures(err) == SelectSeq(err, LAMBDA e : e.tag = "Failed to execute block command")

\* The step handles a line during which the block command failed.
ExecFailed == nEvents' = nEvents + 1 /\ Len(ExecFailures(stderr')) > Len(ExecFailures(stderr))

----------------------------------------------------------------------------
(* C15  Interrupt dump *)

\* The arrays of alerts dumped to standard output.
Dumps(out) == SelectSeq(out, LAMBDA e : e.tag = "DUMP")

\* C15: once the loop is stopped by an interrupt, the last thing printed is,
\* after the notice, one array that is the alert log: every alert appended
\* since start, once, in the order of appending.  It is printed once, and
\* only on interrupt.  The alerts printed as [ALERT] are those of the array,
\* and at most one more: the alert whose printing the interrupt separated
\* from its appending.
C15_InterruptDump ==
  /\ pc # "interrupted" => Dumps(stdout) = <<>>
  /\ pc = "interrupted" =>
       LET n == Len(stdout)
       IN  /\ n >= 2
           /\ stdout[n - 1].tag = "NOTICE"
           /\ stdout[n].tag = "DUMP"
           /\ Len(Dumps(stdout)) = 1
           /\ stdout[n].alerts = alerts
           /\ Len(Printed(stdout)) \in {Len(alerts), Len(alerts) + 1}
           /\ SubSeq(Printed(stdout), 1, Len(alerts)) = alerts

\* The loop was interrupted after three lines had each produced an alert:
\* the array holds the three.
C15_Witness ==
  /\ pc = "interrupted"
  /\ nEvents = 3
  /\ Len(stdout[Len(stdout)].alerts) = 3
  /\ Printed(stdout) = alerts
  /\ alerts[1] # alerts[2]
  /\ alerts[2] # alerts[3]

----------------------------------------------------------------------------
(* C16  Alert file format *)

\* The character that ends a line of a text file.
LineTerminator == "\n"

\* The alerts serialised in the file, in the order they were written.
Records(file) ==
  LET rs == SelectSeq(file, LAMBDA e : e.kind = "json")
  IN  [i \in 1..Len(rs) |-> rs[i].alert]

\* The number of lines the file has gained: one per line terminator written.
LinesGained(file) ==
  Len(SelectSeq(file, LAMBDA e : e.kind = "chars" /\ e.chars = LineTerminator))

\* C16: with every write succeeding, after n alerts the alert file has
\* gained n lines, the serialised alerts in emission order, each record
\* followed by a line terminator.
C16_AlertFileFormat ==
  WriteFailures(stderr) = <<>> =>
    /\ Records(alert_file) = alerts
    /\ LinesGained(alert_file) = Len(alerts)
    /\ \A i \in 1..Len(alert_file) :
         alert_file[i].kind = "json" =>
           /\ i < Len(alert_file)
           /\ alert_file[i + 1] = [kind |-> "chars", chars |-> LineTerminator]

\* What the file does hold: the serialised alerts in emission order, each
\* followed by the two characters backslash and n, on a single line.
C16_RecordsUnterminated ==
  WriteFailures(stderr) = <<>> =>
    /\ Records(alert_file) = alerts
    /\ LinesGained(alert_file) = 0
    /\ Len(alert_file) = 2 * Len(alerts)

----------------------------------------------------------------------------
(* C17  Shared failure counter *)

\* The number of entries of h equal to x.
CountOf(h, x) == Len(SelectSeq(h, LAMBDA e : e = x))

\* C17: failures matched by FAILED_RE and by PAM_FAILED_RE go to the same
\* sequence failed[ip]: each of them is one record_failed(ip), and the
\* sequence holds the latest of them, whatever their kind.  The count of a
\* brute_force_suspected alert, and recent_failed of a later login from the
\* IP, is the number of stored failures of the one kind plus that of the
\* other, and the alert is emitted when that total reaches the threshold.
C17_SharedFailureCounter ==
  [][\A ip \in IPs :
       LET stored == IF ip \in DOMAIN failed' THEN failed'[ip] ELSE <<>>
           kept == LastN(failureKinds'[ip], Len(stored))
           total == CountOf(kept, "FAILED_RE") + CountOf(kept, "PAM_FAILED_RE")
           bfs == OfKind(lineAlerts', "brute_force_suspected")
           saf == OfKind(lineAlerts', "successful_after_failures")
       IN  /\ Len(failureKinds'[ip]) = Len(failedHist'[ip])
           /\ Len(stored) <= Len(failedHist'[ip])
           /\ stored = LastN(failedHist'[ip], Len(stored))
           /\ total = Len(stored)
           /\ (nEvents' = nEvents + 1 /\ line' \in {FailedLine(ip), PamFailedLine(ip)}) =>
                /\ Len(bfs) = (IF total >= failed_threshold THEN 1 ELSE 0)
                /\ \A i \in 1..Len(bfs) :
                     bfs[i].info = [ip |-> ip, count |-> total, window_s |-> window]
           /\ (Invokes("record_success") /\ calls'[1].ip = ip) =>
                /\ Len(saf) = (IF total >= Max(1, failed_threshold \div 2) THEN 1 ELSE 0)
                /\ \A i \in 1..Len(saf) : saf[i].info.recent_failed = total]_vars

\* A failure of each kind from one IP, then a login from it: the second
\* failure reached the threshold of 2, and the login reports both.
C17_Witness ==
  \E ip \in IPs :
    /\ failed_threshold = 2
    /\ failureKinds[ip] = <<"PAM_FAILED_RE", "FAILED_RE">>
    /\ Len(AlertsFor(alerts, "brute_force_suspected", ip)) = 1
    /\ AlertsFor(alerts, "brute_force_suspected", ip)[1].info.count = 2
    /\ Invoked("record_success")
    /\ calls[1].ip = ip
    /\ Len(lineAlerts) >= 1
    /\ lineAlerts[1].kind = "successful_after_failures"
    /\ lineAlerts[1].info.recent_failed = 2

----------------------------------------------------------------------------
(* C18  Known-IP set is exact and per user *)

\* The known IPs of a user, none for a user the map has no key for.
KnownIps(map, user) == IF user \in DOMAIN map THEN map[user] ELSE {}

\* The IPs of the logins in a user's history.
IpsIn(h) == {h[i][1] : i \in 1..Len(h)}

\* C18: known_user_ips[user] is at all times the set of IPs the user has
\* logged in from, and a login emits login_from_new_ip exactly when the
\* user has not logged in from that IP before; logins of other users and
\* failures or invalid-user attempts from the IP play no part.
C18_KnownIpsExact ==
  [][/\ \A u \in Users : KnownIps(known_user_ips', u) = IpsIn(successHist'[u])
     /\ Invokes("record_success") =>
          LET user == calls'[1].user
              ip == calls'[1].ip
              new == AlertsFor(OfKind(lineAlerts', "login_from_new_ip"), "login_from_new_ip", ip)
          IN  /\ Len(new) = (IF ip \in IpsIn(successHist[user]) THEN 0 ELSE 1)
              /\ Len(OfKind(lineAlerts', "login_from_new_ip")) = Len(new)
              /\ \A i \in 1..Len(new) : new[i].info = [user |-> user, ip |-> ip]]_vars

\* A user's first login from an IP alerts although the other user has logged
\* in from that IP and a failure from it was recorded; the other user has
\* not logged in from anywhere else.
C18_Witness ==
  \E u \in Users, v \in Users, ip \in IPs :
    /\ u # v
    /\ Invoked("record_success") /\ calls[1].user = u /\ calls[1].ip = ip
    /\ Len(OfKind(lineAlerts, "login_from_new_ip")) = 1
    /\ KnownIps(known_user_ips, v) = {ip}
    /\ KnownIps(known_user_ips, u) = {ip}
    /\ failedHist[ip] # <<>>

----------------------------------------------------------------------------
(* C19  Per-key isolation *)

\* Maps m and m2 have the same keys and values, the key k apart.
SameExcept(m, m2, k) ==
  /\ DOMAIN m \ {k} = DOMAIN m2 \ {k}
  /\ \A j \in DOMAIN m \ {k} : m2[j] = m[j]

\* Map m2 holds every key of m with the value it has in m.
SameContents(m, m2) ==
  /\ DOMAIN m \subseteq DOMAIN m2
  /\ \A j \in DOMAIN m : m2[j] = m[j]

\* map2[k] is what is left of map[k] with `now` appended, after entries are
\* popped from its left.
OwnSuffix(map, map2, k, now) ==
  LET old == Append(IF k \in DOMAIN map THEN map[k] ELSE <<>>, now)
  IN  /\ k \in DOMAIN map2
      /\ Len(map2[k]) <= Len(old)
      /\ map2[k] = LastN(old, Len(map2[k]))

\* C19: a failure or invalid-user event for an IP changes the sequence of
\* that IP in its own map and nothing else: no sequence of another IP, no
\* state of any user; whether it alerts is decided by that sequence alone.
\* A login changes the state of its own user and nothing else: the other
\* users' state and the contents of every IP's sequences stay as they were.
C19_PerKeyIsolation ==
  [][/\ Invokes("record_failed") =>
          /\ SameExcept(failed, failed', calls'[1].ip)
          /\ OwnSuffix(failed, failed', calls'[1].ip, calls'[1].now)
          /\ (lineAlerts' # <<>>) = (Len(failed'[calls'[1].ip]) >= failed_threshold)
          /\ invalid_user' = invalid_user
          /\ known_user_ips' = known_user_ips
          /\ successful_logins' = successful_logins
     /\ Invokes("record_invalid_user") =>
          /\ SameExcept(invalid_user, invalid_user', calls'[1].ip)
          /\ OwnSuffix(invalid_user, invalid_user', calls'[1].ip, calls'[1].now)
          /\ (lineAlerts' # <<>>) = (Len(invalid_user'[calls'[1].ip]) >= invalid_threshold)
          /\ failed' = failed
          /\ known_user_ips' = known_user_ips
          /\ successful_logins' = successful_logins
     /\ Invokes("record_success") =>
          /\ SameContents(failed, failed')
          /\ \A j \in DOMAIN failed' \ DOMAIN failed : failed'[j] = <<>>
          /\ invalid_user' = invalid_user
          /\ SameExcept(known_user_ips, known_user_ips', calls'[1].user)
          /\ SameExcept(successful_logins, successful_logins', calls'[1].user)]_vars

\* A failure from one IP is handled while the other IP's sequence holds an
\* entry older than the window, which stays, and a user has a known IP.
C19_Witness ==
  \E a \in IPs, b \in IPs :
    /\ a # b
    /\ Invoked("record_failed") /\ calls[1].ip = a
    /\ b \in DOMAIN failed
    /\ failed[b] # <<>>
    /\ failed[b][1] < calls[1].now - window
    /\ known_user_ips # <<>>

----------------------------------------------------------------------------
(* C20  Block follows alert *)

\* The kinds of a sequence of alerts.
KindsOf(as) == [i \in 1..Len(as) |-> as[i].kind]

\* What a step adds to standard output.
NewOutput == SubSeq(stdout', Len(stdout) + 1, Len(stdout'))

\* C20: a line that issues a block request is a failure or invalid-user
\* event that has first emitted brute_force_suspected, resp.
\* invalid_user_burst, for the IP it then blocks; a login issues no block
\* request whichever alerts it emits, and emits successful_after_failures
\* before login_from_new_ip when it emits both.
C20_BlockFollowsAlert ==
  [][nEvents' = nEvents + 1 =>
       /\ lineBlocks' # <<>> =>
            /\ Len(calls') = 1
            /\ calls'[1].rule \in {"record_failed", "record_invalid_user"}
            /\ Len(lineBlocks') = 1
            /\ lineBlocks'[1].ip = calls'[1].ip
            /\ Len(lineAlerts') = 1
            /\ lineAlerts'[1].kind = (IF calls'[1].rule = "record_failed"
                                        THEN "brute_force_suspected" ELSE "invalid_user_burst")
            /\ lineAlerts'[1].info.ip = calls'[1].ip
            /\ NewOutput = <<[tag |-> "ALERT", alert |-> lineAlerts'[1]],
                             [tag |-> "ACTION", ip |-> calls'[1].ip]>>
       /\ Invokes("record_success") =>
            /\ lineBlocks' = <<>>
            /\ PrintedActions(NewOutput) = <<>>
            /\ KindsOf(lineAlerts') \in {<<>>, <<"successful_after_failures">>, <<"login_from_new_ip">>,
                                         <<"successful_after_failures", "login_from_new_ip">>}]_vars

\* A login from an IP that was blocked for brute force emits both alerts,
\* in that order, and no block request.
C20_Witness ==
  /\ Invoked("record_success")
  /\ KindsOf(lineAlerts) = <<"successful_after_failures", "login_from_new_ip">>
  /\ lineBlocks = <<>>
  /\ Len(blocks) >= 1
  /\ blocks[Len(blocks)].ip = calls[1].ip
  /\ Len(AlertsFor(alerts, "brute_force_suspected", calls[1].ip)) >= 1

====
